---- MODULE Spec2Model ----
(***************************************************************************)
(* Job_Hunter: the scan pipeline of core/worker.py (Worker.run_scan and    *)
(* Worker.stop), with the scouts and the qualifier agent it drives.        *)
(*                                                                         *)
(* A context is a thread that may be inside run_scan.  "worker" is the     *)
(* QThread the Worker object lives on (ui/main_window.py:197-200): the     *)
(* start_worker_scan signal is connected to run_scan across threads        *)
(* (main_window.py:215), so the runs it starts execute one after another   *)
(* on that thread.  "direct" is any other thread that calls run_scan on    *)
(* the object directly.  stop() is called directly from the GUI thread     *)
(* (main_window.py:387) and so interleaves with a run at any point.        *)
(*                                                                         *)
(* A step of run_scan holds at most one access to the shared flag          *)
(* self._is_running; signal emissions and local work are attached to it.   *)
(***************************************************************************)
EXTENDS Integers, Sequences, FiniteSets, TLC

\* ---- bounds of the model ----
MaxScouts == 2      \* length of config.SCOUTS_TO_USE
MaxLeads == 2       \* leads collected by one run
MaxRuns == 2        \* run_scan requests
MaxStops == 1       \* stop() calls recorded during one run
MaxLeadsDirect == 1 \* the same two, in behaviours with a second calling thread
MaxStopsDirect == 1
MaxSources == 2     \* subreddits or feeds configured for one scout
MaxFetched == 2     \* items the API or the feeds deliver to one find_leads call
MaxFinds == 2       \* find_leads calls made on one scout

W == "worker"
D == "direct"
Contexts == {W, D}

VARIABLES
    SCOUTS_TO_USE,     \* config.SCOUTS_TO_USE
    is_running,        \* self._is_running
    scouts,            \* self._scouts
    qualifier_agent,   \* self._qualifier_agent
    pc,                \* per context: position inside run_scan
    scan_cancelled,    \* per context: local scan_cancelled
    scout_iter,        \* per context: the list object the scout loop iterates
    j,                 \* per context: index of the scout loop
    all_leads,         \* per context: local all_leads
    i,                 \* per context: enumerate index of the lead loop (1-based)
    events,            \* per context: signals emitted by the current call
    calls,             \* per context: external calls made by the current call
    accepted,          \* per context: the current call passed the guard
    stops,             \* per context: positions of the run at which stop() was called
    raised,            \* per context: exceptions raised inside the try of the current call
    runs,              \* number of run_scan requests so far
    second_thread,     \* a second thread calls run_scan in this behaviour
    posted,            \* stop() calls queued on the worker thread, not yet executed
    idle_stops,        \* the values of `runs` at which stop() was called with no run in progress
    qa,                \* a QualifierAgent used on its own: its state and its last call
    sc                 \* a scout used on its own: its state and its current find_leads call

workerVars == <<SCOUTS_TO_USE, is_running, scouts, qualifier_agent, pc, scan_cancelled,
                scout_iter, j, all_leads, i, events, calls, accepted, stops, raised, runs,
                second_thread, posted, idle_stops>>
vars == <<workerVars, qa, sc>>

\* ---- values ----
ScoutPaths == {"reddit_scout.RedditScout", "rss_scout.RSSScout", "missing.Scout"}

\* JobLead (dataclass) and praw Submission (no `body`, no `source` attribute)
Bodies == {" ", "job"}
JobLeads == [cls : {"JobLead"}, body : Bodies]
Submissions == [cls : {"Submission"}]

\* what the model backend does with one generate_content call
Responses == {"APIError", "Empty", "NotJSON", "MissingKeys", "Unexpected", "Complete"}

\* config.py lines 59-62
ConfiguredScouts == <<"reddit_scout.RedditScout", "rss_scout.RSSScout">>

\* the most leads the sources hand to one run
Room == IF second_thread THEN MaxLeadsDirect ELSE MaxLeads

\* the most stop() calls recorded during one run
StopRoom == IF second_thread THEN MaxStopsDirect ELSE MaxStops

SeqsUpTo(S, n) == UNION {[1..k -> S] : k \in 0..n}

\* a configuration lists each scout path at most once
Configurations ==
    {c \in SeqsUpTo(ScoutPaths, MaxScouts) :
        \A a, b \in 1..Len(c) : c[a] = c[b] => a = b}

\* ---- signals ----
Status(s) == [sig |-> "status_updated", arg |-> s]
Progress(n) == [sig |-> "progress_updated", arg |-> n]
JobFound(n) == [sig |-> "job_found", arg |-> n]
Error(s) == [sig |-> "error_occurred", arg |-> s]
Finished == [sig |-> "finished"]


\* a resolver that falls back to the RSS scout when the import fails
import_class_from_stringFallback(path) ==
    CASE path = "reddit_scout.RedditScout" -> "RedditScout"
      [] OTHER -> "RSSScout"

\* ---- core/worker.py: _import_class_from_string ----
\* the class a path names, "None" when the import fails
import_class_from_string(path) ==
    CASE path = "reddit_scout.RedditScout" -> "RedditScout"
      [] path = "rss_scout.RSSScout" -> "RSSScout"
      [] OTHER -> "None"

\* a constructor that keeps the client it built whatever happened
NewScoutKeepsClient(cls, credsOk) ==
    IF cls = "RedditScout"
    THEN [cls |-> "RedditScout", reddit |-> TRUE]
    ELSE [cls |-> "RSSScout"]

\* ---- scout construction: RedditScout.__init__, RSSScout.__init__ ----
\* credsOk: the Reddit credentials are configured and authenticate
NewScout(cls, credsOk) ==
    IF cls = "RedditScout"
    THEN [cls |-> "RedditScout", reddit |-> credsOk]
    ELSE [cls |-> "RSSScout"]

\* a scout loop that gives up at the first path that fails to resolve
RECURSIVE InitScoutsUntilFailure(_, _)
InitScoutsUntilFailure(paths, credsOk) ==
    IF paths = <<>> THEN <<>>
    ELSE LET cls == import_class_from_string(Head(paths))
         IN IF cls # "None"
            THEN <<NewScout(cls, credsOk)>> \o InitScoutsUntilFailure(Tail(paths), credsOk)
            ELSE <<>>

\* a scout loop that leaves out a scout built without its client
RECURSIVE InitScoutsEnabledOnly(_, _)
InitScoutsEnabledOnly(paths, credsOk) ==
    IF paths = <<>> THEN <<>>
    ELSE LET cls == import_class_from_string(Head(paths))
             rest == InitScoutsEnabledOnly(Tail(paths), credsOk)
         IN IF cls # "None" /\ (cls = "RedditScout" => credsOk)
            THEN <<NewScout(cls, credsOk)>> \o rest ELSE rest

\* run_scan lines 105-109: the scouts of the paths that resolve, in order
RECURSIVE InitScouts(_, _)
InitScouts(paths, credsOk) ==
    IF paths = <<>> THEN <<>>
    ELSE LET cls == import_class_from_string(Head(paths))
             rest == InitScouts(Tail(paths), credsOk)
         IN IF cls # "None" THEN <<NewScout(cls, credsOk)>> \o rest ELSE rest

\* ---- find_leads: the lists one call can return, at most `room` leads ----
FindLeadsResults(scout, room) ==
    IF scout.cls = "RedditScout"
    THEN IF ~scout.reddit THEN {<<>>} ELSE SeqsUpTo(Submissions, room)
    ELSE SeqsUpTo(JobLeads, room)

\* ---- QualifierAgent ----
\* QualifierAgent.__init__: model stays None when the key is missing or
\* the client fails to initialise
\* "no_key": GOOGLE_API_KEY is empty (lines 47-52); "PermissionDenied" and
\* "Exception": the two except clauses of lines 75-84; "ok": line 76 reached
QualifierInits == {"ok", "no_key", "PermissionDenied", "Exception"}
NewQualifier(outcome) == [model |-> outcome = "ok"]

\* the body tested without stripping it
StripNothing(s) == s

\* str.strip() on the bodies of the model
Strip(s) == IF s = " " THEN "" ELSE s

\* lead.body: a Submission has no such attribute
HasBody(lead) == "body" \in DOMAIN lead

\* the backend is reached only past the two early returns
CallsBackend(agent, lead) ==
    /\ agent.model
    /\ HasBody(lead)
    /\ Strip(lead.body) # ""

\* the method without its test of the body
analyze_and_qualifyAnyBody(agent, lead, response) ==
    IF ~agent.model THEN "None"
    ELSE IF response = "Complete" THEN "dict"
    ELSE "None"

\* the method without its test of self.model
analyze_and_qualifyUnchecked(agent, lead, response) ==
    IF ~HasBody(lead) THEN "AttributeError"
    ELSE IF Strip(lead.body) = "" THEN "None"
    ELSE IF response = "Complete" /\ agent.model THEN "dict"
    ELSE "None"

\* analyze_and_qualify: "dict" (a result), "None", or the exception that
\* escapes it.  lead.body is read at line 167, outside the try of line 178.
analyze_and_qualify(agent, lead, response) ==
    IF ~agent.model THEN "None"
    ELSE IF ~HasBody(lead) THEN "AttributeError"
    ELSE IF Strip(lead.body) = "" THEN "None"
    ELSE IF response = "Complete" THEN "dict"
    ELSE "None"

\* ---- analyze_and_qualify in detail: the lead, the response, the result ----
\* JobLead with all its fields (base_scout.py lines 23-35)
LeadIds == {"id1", "id2"}
LeadBodies == Bodies \cup {""}
QualifierLeads ==
    [cls : {"JobLead"}, id : LeadIds, title : {"Python developer"}, body : LeadBodies,
     url : {"https://jobs.example/1"}, source : {"jobs.example"}]
      \cup Submissions

\* JSON values as json.loads returns them
JInt(n) == [t |-> "int", v |-> n]
JStr(x) == [t |-> "str", v |-> x]
JNull == [t |-> "null"]
JObject(f) == [t |-> "object", v |-> f]
\* a list and a top-level string, by the strings `in` finds in them
JList(elems) == [t |-> "list", has |-> elems]
JString(subs) == [t |-> "string", has |-> subs]

\* line 206
RequiredKeys == {"score", "justification", "cover_letter_draft"}
OptionalKeys == {"extracted_company_name", "extracted_contact_info"}
FieldValues == {JInt(85), JInt(150), JStr("text"), JNull}
JSONObjects == UNION {[K -> FieldValues] : K \in SUBSET (RequiredKeys \cup OptionalKeys)}
JSONValues ==
    {JObject(f) : f \in JSONObjects}
      \cup {JList({}), JList(RequiredKeys), JString({}), JString(RequiredKeys), JInt(7), JNull}

\* response.text: a text that json.loads parses to `value`, or one it rejects
Texts == [valid : {TRUE}, value : JSONValues] \cup {[valid |-> FALSE]}

\* the outcomes of one generate_content call (lines 185-190): the call
\* raises GoogleAPICallError, response.text raises (blocked response),
\* the text is empty, or there is a text
BackendResponses ==
    {[kind |-> "APIError"], [kind |-> "Blocked"], [kind |-> "Empty"]}
      \cup [kind : {"Text"}, text : Texts]
NoResponse == [kind |-> "NotCalled"]

\* line 203: json.loads
Loads(text) == IF text.valid THEN text.value ELSE [t |-> "JSONDecodeError"]

\* `key in llm_data` for the types that support it
Contains(data, key) ==
    IF data.t = "object" THEN key \in DOMAIN data.v ELSE key \in data.has

\* at least one required key is enough
HasRequiredAny(data) == \E key \in RequiredKeys : Contains(data, key)

\* line 207: all(key in llm_data for key in required_keys)
HasRequired(data) == \A key \in RequiredKeys : Contains(data, key)

\* lines 185-209 and the except clauses 226-241: the path one backend
\* response takes through analyze_and_qualify
ResponseKind(r) ==
    CASE r.kind = "APIError" -> "APIError"
      [] r.kind = "Blocked" -> "Unexpected"
      [] r.kind = "Empty" -> "Empty"
      [] r.kind = "Text" ->
           LET data == Loads(r.text) IN
           IF data.t = "JSONDecodeError" THEN "NotJSON"
           ELSE IF data.t \in {"int", "null"} THEN "Unexpected"   \* `in` raises TypeError
           ELSE IF ~HasRequired(data) THEN "MissingKeys"
           ELSE IF data.t # "object" THEN "Unexpected"            \* no .get: AttributeError
           ELSE "Complete"

\* dict.get(key, default)
Get(f, key, default) == IF key \in DOMAIN f THEN f[key] ELSE default

\* the result with the two extracted fields exchanged
QualificationResultSwapped(lead, f) ==
    [id |-> lead.id, title |-> lead.title, url |-> lead.url, source |-> lead.source,
     score |-> Get(f, "score", JInt(0)),
     justification |-> Get(f, "justification", JStr("N/A")),
     cover_letter |-> Get(f, "cover_letter_draft", JStr("")),
     company_name |-> Get(f, "extracted_contact_info", JNull),
     contact_info |-> Get(f, "extracted_company_name", JNull)]

\* lines 212-222: the result dictionary
QualificationResult(lead, f) ==
    [id |-> lead.id, title |-> lead.title, url |-> lead.url, source |-> lead.source,
     score |-> Get(f, "score", JInt(0)),
     justification |-> Get(f, "justification", JStr("N/A")),
     cover_letter |-> Get(f, "cover_letter_draft", JStr("")),
     company_name |-> Get(f, "extracted_company_name", JNull),
     contact_info |-> Get(f, "extracted_contact_info", JNull)]

\* one call: what it returns ("dict", "None" or the exception it raises),
\* the dictionary, and the number of generate_content calls it made
Qualify(agent, lead, r) ==
    LET out == analyze_and_qualify(agent, lead, ResponseKind(r)) IN
    [ret |-> out,
     value |-> IF out = "dict" THEN QualificationResult(lead, Loads(r.text).v) ELSE JNull,
     backend |-> IF CallsBackend(agent, lead) THEN 1 ELSE 0]

\* a qualifier that asks the backend a second time
BackendLogRetry(agent, lead, n) ==
    IF CallsBackend(agent, lead)
    THEN <<[fn |-> "generate_content", n |-> n], [fn |-> "generate_content", n |-> n]>>
    ELSE <<>>

\* qualifier_agent.py lines 185-188: the one generate_content call of an
\* analyze_and_qualify call that gets past its early returns
BackendLog(agent, lead, n) ==
    IF CallsBackend(agent, lead) THEN <<[fn |-> "generate_content", n |-> n]>> ELSE <<>>

\* worker.py lines 154-159: a result is emitted for a returned dictionary
ResultEvents(out, n) == IF out = "dict" THEN <<JobFound(n)>> ELSE <<>>

\* ---- variants of the definitions below, each a plausible slip ----
\* the percentage computed from the index after the next one
ProgressOfAhead(done, total) == ((done + 1) * 100) \div total

\* the two terminal statuses exchanged
FinalStatusSwapped(cancelled) == IF cancelled THEN "Scan complete." ELSE "Scan cancelled."

\* the generic except clause logs and emits nothing
HandlerEventsSilent(exc) == <<>>

\* a checkpoint that never observes the flag
CancelledBeforeScoutNever == FALSE
CancelledBeforeLeadNever == FALSE

\* a generic except clause that marks the run cancelled as well
HandlerCancelsAny(exc) == TRUE

\* ---- run_scan helpers ----
\* str(e) of the exceptions a run can raise: line 112 for RuntimeError,
\* the attribute lookup of qualifier_agent.py line 167 for AttributeError
Message(exc) ==
    CASE exc = "RuntimeError" -> "No valid scouts were initialized. Check config.py and logs."
      [] exc = "AttributeError" -> "'Submission' object has no attribute 'body'"
      [] OTHER -> ""

\* line 163: int(((i + 1) / total_leads) * 100), `done` = i + 1
ProgressOf(done, total) == (done * 100) \div total

\* lines 176-179
FinalStatus(cancelled) == IF cancelled THEN "Scan cancelled." ELSE "Scan complete."

\* lines 166-172: what the except clauses emit for exception `exc`
HandlerEvents(exc) ==
    IF exc = "InterruptedError" THEN <<>>
    ELSE <<Error("An error occurred during the scan: " \o Message(exc))>>

\* lines 166-167: the except clause that sets scan_cancelled
HandlerCancels(exc) == exc = "InterruptedError"

\* the three checkpoints: `if not self._is_running` at lines 120, 125, 141
CancelledBeforeScout == ~is_running
CancelledAfterSearch == ~is_running
CancelledBeforeLead == ~is_running

\* the new leads put in front of the list instead of behind it
ExtendFront(leads, found) == found \o leads

\* line 123: all_leads.extend(scout.find_leads())
Extend(leads, found) == leads \o found

\* the result of a call dropped when stop() came during the call
LeadEventsUnlessStopped(out, n, total) ==
    (IF is_running THEN ResultEvents(out, n) ELSE <<>>) \o <<Progress(ProgressOf(n, total))>>

\* the progress of a lead emitted ahead of its result
LeadEventsProgressFirst(out, n, total) ==
    <<Progress(ProgressOf(n, total))>> \o ResultEvents(out, n)

\* lines 154-164: what one iteration emits after the qualifier returned:
\* the result when there is one, then the progress of this lead
LeadEvents(out, n, total) ==
    ResultEvents(out, n) \o <<Progress(ProgressOf(n, total))>>

\* position of context t, recorded when stop() is called
Position(t) == [pc |-> pc[t], j |-> j[t], i |-> i[t]]


\* ---- initial state: Worker.__init__ (lines 61-64), no call in progress ----
InitWorker ==
    /\ is_running = FALSE
    /\ scouts = <<>>
    /\ qualifier_agent = [model |-> FALSE]
    /\ pc = [t \in Contexts |-> "idle"]
    /\ scan_cancelled = [t \in Contexts |-> FALSE]
    /\ scout_iter = [t \in Contexts |-> <<>>]
    /\ j = [t \in Contexts |-> 1]
    /\ all_leads = [t \in Contexts |-> <<>>]
    /\ i = [t \in Contexts |-> 1]
    /\ events = [t \in Contexts |-> <<>>]
    /\ calls = [t \in Contexts |-> <<>>]
    /\ accepted = [t \in Contexts |-> FALSE]
    /\ stops = [t \in Contexts |-> <<>>]
    /\ raised = [t \in Contexts |-> <<>>]
    /\ runs = 0
    /\ posted = 0
    /\ idle_stops = {}
    /\ qa = [pc |-> "new"]
    /\ sc = [pc |-> "new"]

Init ==
    /\ SCOUTS_TO_USE \in Configurations
    /\ second_thread = FALSE
    /\ InitWorker

Emit(t, evs) == events' = [events EXCEPT ![t] = @ \o evs]

\* an exception raised inside the try reaches its except clause and then
\* the finally block
Raise(t, exc) ==
    /\ raised' = [raised EXCEPT ![t] = Append(@, exc)]
    /\ Emit(t, HandlerEvents(exc))
    /\ scan_cancelled' = [scan_cancelled EXCEPT ![t] = @ \/ HandlerCancels(exc)]
    /\ pc' = [pc EXCEPT ![t] = "finally"]

\* ---- Worker.stop (lines 66-75) ----
\* a stop() that flips the flag
StopValueToggle == ~is_running

\* line 75: self._is_running = False
StopValue == FALSE

Stop ==
    /\ \A t \in Contexts : pc[t] # "idle" => Len(stops[t]) < StopRoom
    /\ is_running' = StopValue
    /\ stops' = [t \in Contexts |->
                   IF pc[t] # "idle" THEN Append(stops[t], Position(t)) ELSE stops[t]]
    /\ UNCHANGED <<idle_stops, posted, sc, qa, second_thread, SCOUTS_TO_USE, scouts, qualifier_agent, pc, scan_cancelled,
                   scout_iter, j, all_leads, i, events, calls, accepted, raised, runs>>

\* ---- Worker.run_scan ----
\* lines 90-93: the guard; a rejected request emits the error and returns
RunScanEntry(t) ==
    /\ pc[t] = "idle"
    /\ runs < MaxRuns
    /\ runs' = runs + 1
    /\ scan_cancelled' = [scan_cancelled EXCEPT ![t] = FALSE]
    /\ scout_iter' = [scout_iter EXCEPT ![t] = <<>>]
    /\ j' = [j EXCEPT ![t] = 1]
    /\ all_leads' = [all_leads EXCEPT ![t] = <<>>]
    /\ i' = [i EXCEPT ![t] = 1]
    /\ calls' = [calls EXCEPT ![t] = <<>>]
    /\ stops' = [stops EXCEPT ![t] = <<>>]
    /\ raised' = [raised EXCEPT ![t] = <<>>]
    /\ IF is_running
       THEN /\ events' = [events EXCEPT ![t] = <<Error("A scan is already in progress.")>>]
            /\ accepted' = [accepted EXCEPT ![t] = FALSE]
            /\ pc' = pc
       ELSE /\ events' = [events EXCEPT ![t] = <<>>]
            /\ accepted' = [accepted EXCEPT ![t] = TRUE]
            /\ pc' = [pc EXCEPT ![t] = "set_running"]
    /\ UNCHANGED <<idle_stops, posted, sc, qa, second_thread, SCOUTS_TO_USE, is_running, scouts, qualifier_agent>>

\* lines 95-99
SetRunning(t) ==
    /\ pc[t] = "set_running"
    /\ is_running' = TRUE
    /\ scan_cancelled' = [scan_cancelled EXCEPT ![t] = FALSE]
    /\ Emit(t, <<Status("Starting scan..."), Progress(0)>>)
    /\ pc' = [pc EXCEPT ![t] = "init"]
    /\ UNCHANGED <<idle_stops, posted, sc, qa, second_thread, SCOUTS_TO_USE, scouts, qualifier_agent, scout_iter, j, all_leads,
                   i, calls, accepted, stops, raised, runs>>

\* lines 101-117: the agents are built; no scout resolved raises RuntimeError
InitAgents(t) ==
    /\ pc[t] = "init"
    /\ \E outcome \in QualifierInits, credsOk \in BOOLEAN :
         LET new == InitScouts(SCOUTS_TO_USE, credsOk) IN
         /\ qualifier_agent' = NewQualifier(outcome)
         /\ scouts' = new
         /\ IF new = <<>>
            THEN /\ events' = [events EXCEPT ![t] =
                       @ \o <<Status("Initializing agents...")>> \o HandlerEvents("RuntimeError")]
                 /\ raised' = [raised EXCEPT ![t] = Append(@, "RuntimeError")]
                 /\ scan_cancelled' = [scan_cancelled EXCEPT ![t] = @ \/ HandlerCancels("RuntimeError")]
                 /\ pc' = [pc EXCEPT ![t] = "finally"]
                 /\ UNCHANGED <<scout_iter, j>>
            ELSE /\ Emit(t, <<Status("Initializing agents..."),
                              Status("Searching for job leads from all sources...")>>)
                 /\ scout_iter' = [scout_iter EXCEPT ![t] = new]
                 /\ j' = [j EXCEPT ![t] = 1]
                 /\ pc' = [pc EXCEPT ![t] = "scout_check"]
                 /\ UNCHANGED <<scan_cancelled, raised>>
    /\ UNCHANGED <<idle_stops, posted, sc, qa, second_thread, SCOUTS_TO_USE, is_running, all_leads, i, calls, accepted, stops, runs>>

\* a scout loop that calls find_leads of every remaining scout at once
ScoutCheckFanOut(t) ==
    /\ pc[t] = "scout_check"
    /\ IF CancelledBeforeScout
       THEN /\ Raise(t, "InterruptedError")
            /\ UNCHANGED calls
       ELSE /\ Emit(t, <<Status("Asking " \o scout_iter[t][j[t]].cls \o " for leads...")>>)
            /\ calls' = [calls EXCEPT ![t] =
                   @ \o [k \in 1..(Len(scout_iter[t]) - j[t] + 1) |->
                           [fn |-> "find_leads", n |-> j[t] + k - 1]]]
            /\ pc' = [pc EXCEPT ![t] = "find_leads"]
            /\ UNCHANGED <<scan_cancelled, raised>>
    /\ UNCHANGED <<idle_stops, posted, sc, qa, second_thread, SCOUTS_TO_USE, is_running, scouts, qualifier_agent, scout_iter, j,
                   all_leads, i, accepted, stops, runs>>

\* lines 119-123: the checkpoint before a scout, then the call of find_leads
ScoutCheck(t) ==
    /\ pc[t] = "scout_check"
    /\ IF CancelledBeforeScout
       THEN /\ Raise(t, "InterruptedError")
            /\ UNCHANGED calls
       ELSE /\ Emit(t, <<Status("Asking " \o scout_iter[t][j[t]].cls \o " for leads...")>>)
            /\ calls' = [calls EXCEPT ![t] = Append(@, [fn |-> "find_leads", n |-> j[t]])]
            /\ pc' = [pc EXCEPT ![t] = "find_leads"]
            /\ UNCHANGED <<scan_cancelled, raised>>
    /\ UNCHANGED <<idle_stops, posted, sc, qa, second_thread, SCOUTS_TO_USE, is_running, scouts, qualifier_agent, scout_iter, j,
                   all_leads, i, accepted, stops, runs>>

\* line 123: find_leads returns and all_leads is extended
FindLeadsReturn(t) ==
    /\ pc[t] = "find_leads"
    /\ \E found \in FindLeadsResults(scout_iter[t][j[t]], Room - Len(all_leads[t])) :
         /\ all_leads' = [all_leads EXCEPT ![t] = Extend(@, found)]
         /\ calls' = [calls EXCEPT ![t] =
                        Append(@, [fn |-> "find_leads_return", n |-> j[t], got |-> found])]
    /\ j' = [j EXCEPT ![t] = @ + 1]
    /\ pc' = [pc EXCEPT ![t] = IF j[t] < Len(scout_iter[t]) THEN "scout_check" ELSE "post_search"]
    /\ UNCHANGED <<idle_stops, posted, sc, qa, second_thread, SCOUTS_TO_USE, is_running, scouts, qualifier_agent, scan_cancelled,
                   scout_iter, i, events, accepted, stops, raised, runs>>

\* lines 125-131: the checkpoint after the scout loop; with no lead the
\* "no leads" status and progress(100) are emitted
PostSearchCheck(t) ==
    /\ pc[t] = "post_search"
    /\ IF CancelledAfterSearch
       THEN Raise(t, "InterruptedError")
       ELSE IF all_leads[t] = <<>>
       THEN /\ Emit(t, <<Status("No new job leads found."), Progress(100)>>)
            /\ pc' = [pc EXCEPT ![t] = "no_leads_clear"]
            /\ UNCHANGED <<scan_cancelled, raised>>
       ELSE /\ pc' = [pc EXCEPT ![t] = "lead_check"]
            /\ UNCHANGED <<events, scan_cancelled, raised>>
    /\ i' = [i EXCEPT ![t] = 1]
    /\ UNCHANGED <<idle_stops, posted, sc, qa, second_thread, SCOUTS_TO_USE, is_running, scouts, qualifier_agent, scout_iter, j,
                   all_leads, calls, accepted, stops, runs>>

\* line 132
NoLeadsClear(t) ==
    /\ pc[t] = "no_leads_clear"
    /\ is_running' = FALSE
    /\ pc' = [pc EXCEPT ![t] = "no_leads_finish"]
    /\ UNCHANGED <<idle_stops, posted, sc, qa, second_thread, SCOUTS_TO_USE, scouts, qualifier_agent, scan_cancelled, scout_iter, j,
                   all_leads, i, events, calls, accepted, stops, raised, runs>>

\* lines 133-134: finished is emitted; the return inside the try runs the
\* finally block
NoLeadsFinish(t) ==
    /\ pc[t] = "no_leads_finish"
    /\ Emit(t, <<Finished>>)
    /\ pc' = [pc EXCEPT ![t] = "finally"]
    /\ UNCHANGED <<idle_stops, posted, sc, qa, second_thread, SCOUTS_TO_USE, is_running, scouts, qualifier_agent, scan_cancelled,
                   scout_iter, j, all_leads, i, calls, accepted, stops, raised, runs>>

\* lines 140-152: the checkpoint before a lead, then the call of the qualifier
LeadCheck(t) ==
    /\ pc[t] = "lead_check"
    /\ IF CancelledBeforeLead
       THEN /\ scan_cancelled' = [scan_cancelled EXCEPT ![t] = TRUE]
            /\ pc' = [pc EXCEPT ![t] = "finally"]
            /\ UNCHANGED <<events, calls, raised>>
       ELSE /\ Emit(t, <<Status("Analyzing lead")>>)
            /\ calls' = [calls EXCEPT ![t] = Append(@, [fn |-> "analyze_and_qualify", n |-> i[t]])]
            /\ pc' = [pc EXCEPT ![t] = "qualify"]
            /\ UNCHANGED <<scan_cancelled, raised>>
    /\ UNCHANGED <<idle_stops, posted, sc, qa, second_thread, SCOUTS_TO_USE, is_running, scouts, qualifier_agent, scout_iter, j,
                   all_leads, i, accepted, stops, runs>>

\* lines 150-164: the qualifier returns (or raises); a result is emitted,
\* then the progress of this lead
QualifyReturn(t) ==
    /\ pc[t] = "qualify"
    /\ \E response \in Responses :
         LET lead == all_leads[t][i[t]]
             out == analyze_and_qualify(qualifier_agent, lead, response)
             total == Len(all_leads[t])
         IN /\ IF out \notin {"None", "dict"}
               THEN /\ Raise(t, out)
                    /\ UNCHANGED i
               ELSE /\ Emit(t, LeadEvents(out, i[t], total))
                    /\ i' = [i EXCEPT ![t] = @ + 1]
                    /\ pc' = [pc EXCEPT ![t] = IF i[t] < total THEN "lead_check" ELSE "finally"]
                    /\ UNCHANGED <<scan_cancelled, raised>>
            \* the log: the backend call the qualifier made, then the end of
            \* the call with what it returned or raised
            /\ calls' = [calls EXCEPT ![t] =
                   @ \o BackendLog(qualifier_agent, lead, i[t])
                     \o <<[fn |-> "analyze_and_qualify_return", n |-> i[t], out |-> out]>>]
    /\ UNCHANGED <<idle_stops, posted, sc, qa, second_thread, SCOUTS_TO_USE, is_running, scouts, qualifier_agent, scout_iter, j,
                   all_leads, accepted, stops, runs>>

\* the finally block without its reset of the flag
FinallyKeepsFlag(t) ==
    /\ pc[t] = "finally"
    /\ pc' = [pc EXCEPT ![t] = "finally_emit"]
    /\ UNCHANGED <<idle_stops, posted, sc, qa, second_thread, SCOUTS_TO_USE, is_running, scouts, qualifier_agent,
                   scan_cancelled, scout_iter, j, all_leads, i, events, calls, accepted,
                   stops, raised, runs>>

\* lines 173-175
FinallyClear(t) ==
    /\ pc[t] = "finally"
    /\ is_running' = FALSE
    /\ pc' = [pc EXCEPT ![t] = "finally_emit"]
    /\ UNCHANGED <<idle_stops, posted, sc, qa, second_thread, SCOUTS_TO_USE, scouts, qualifier_agent, scan_cancelled, scout_iter, j,
                   all_leads, i, events, calls, accepted, stops, raised, runs>>

\* lines 176-181: the terminal status, progress(100) and finished; run_scan returns
FinallyEmit(t) ==
    /\ pc[t] = "finally_emit"
    /\ Emit(t, <<Status(FinalStatus(scan_cancelled[t])), Progress(100), Finished>>)
    /\ pc' = [pc EXCEPT ![t] = "idle"]
    /\ UNCHANGED <<idle_stops, posted, sc, qa, second_thread, SCOUTS_TO_USE, is_running, scouts, qualifier_agent, scan_cancelled,
                   scout_iter, j, all_leads, i, calls, accepted, stops, raised, runs>>

RunStep(t) ==
    \/ RunScanEntry(t)
    \/ SetRunning(t)
    \/ InitAgents(t)
    \/ ScoutCheck(t)
    \/ FindLeadsReturn(t)
    \/ PostSearchCheck(t)
    \/ NoLeadsClear(t)
    \/ NoLeadsFinish(t)
    \/ LeadCheck(t)
    \/ QualifyReturn(t)
    \/ FinallyClear(t)
    \/ FinallyEmit(t)

\* the application: every run executes on the worker thread
Next ==
    \/ RunStep(W)
    \/ Stop

Spec == Init /\ [][Next]_vars

\* run_scan also called directly from a second thread
NextDirect ==
    \/ \E t \in Contexts : RunStep(t)
    \/ Stop

InitDirect ==
    /\ SCOUTS_TO_USE = ConfiguredScouts
    /\ second_thread = TRUE
    /\ InitWorker

SpecDirect == InitDirect /\ [][NextDirect]_vars

\* ---- stop() with no run in progress ----
\* Worker.stop (lines 66-75) called while run_scan is not executing; the
\* call is recorded once for each number of runs made so far
StopWhileIdle ==
    /\ pc[W] = "idle"
    /\ runs \notin idle_stops
    /\ is_running' = StopValue
    /\ idle_stops' = idle_stops \cup {runs}
    /\ UNCHANGED <<posted, sc, qa, second_thread, SCOUTS_TO_USE, scouts, qualifier_agent, pc,
                   scan_cancelled, scout_iter, j, all_leads, i, events, calls, accepted,
                   stops, raised, runs>>

NextIdle ==
    \/ RunStep(W)
    \/ pc[W] # "idle" /\ Stop
    \/ StopWhileIdle

InitIdle ==
    /\ SCOUTS_TO_USE = ConfiguredScouts
    /\ second_thread = FALSE
    /\ InitWorker

SpecIdle == InitIdle /\ [][NextIdle]_vars

\* ---- the Stop button ----
\* main_window.py line 211: clicked is connected to Worker.stop, a slot of
\* an object that lives on the worker thread (line 199), so a click posts
\* the call to that thread's event loop.  The button is enabled while a
\* scan is shown as running (lines 264 and 277).
ClickStop ==
    /\ accepted[W]
    /\ pc[W] # "idle"
    /\ Len(stops[W]) < StopRoom
    /\ posted' = posted + 1
    /\ stops' = [stops EXCEPT ![W] = Append(@, Position(W))]
    /\ UNCHANGED <<idle_stops, sc, qa, second_thread, SCOUTS_TO_USE, is_running, scouts,
                   qualifier_agent, pc, scan_cancelled, scout_iter, j, all_leads, i, events, calls, accepted,
                   raised, runs>>

\* the event loop of the worker thread executes a posted stop(); it gets
\* to it when the slot it is executing, run_scan, has returned
StopDelivered ==
    /\ pc[W] = "idle"
    /\ posted > 0
    /\ posted' = posted - 1
    /\ is_running' = StopValue
    /\ UNCHANGED <<idle_stops, sc, qa, second_thread, SCOUTS_TO_USE, scouts, qualifier_agent, pc,
                   scan_cancelled, scout_iter, j, all_leads, i, events, calls, accepted,
                   stops, raised, runs>>

\* the application driven by its two buttons: the posted calls are
\* executed in the order they were posted
NextButton ==
    \/ (pc[W] = "idle" => posted = 0) /\ RunStep(W)
    \/ ClickStop
    \/ StopDelivered

InitButton ==
    /\ SCOUTS_TO_USE = ConfiguredScouts
    /\ second_thread = FALSE
    /\ InitWorker

SpecButton == InitButton /\ [][NextButton]_vars

\* ---- a QualifierAgent used on its own ----
\* QualifierAgent.__init__
QualifierInit ==
    /\ qa.pc = "new"
    /\ \E outcome \in QualifierInits :
         qa' = [pc |-> "ready", agent |-> NewQualifier(outcome)]
    /\ UNCHANGED <<workerVars, sc>>

\* the first call of analyze_and_qualify (the method keeps no state between
\* calls), and what the worker emits for it; the response is the one the
\* backend gives if it is called
QualifierCall ==
    /\ qa.pc = "ready"
    /\ \E lead \in QualifierLeads, r \in BackendResponses :
         LET q == Qualify(qa.agent, lead, r) IN
         qa' = [pc |-> "returned", agent |-> qa.agent, lead |-> lead,
                response |-> IF q.backend > 0 THEN r ELSE NoResponse,
                ret |-> q.ret, value |-> q.value, backend |-> q.backend,
                emitted |-> ResultEvents(q.ret, 1)]
    /\ UNCHANGED <<workerVars, sc>>

NextQualifier ==
    \/ QualifierInit
    \/ QualifierCall

InitQualifier ==
    /\ SCOUTS_TO_USE = ConfiguredScouts
    /\ second_thread = FALSE
    /\ InitWorker

SpecQualifier == InitQualifier /\ [][NextQualifier]_vars

\* ---- the scouts used on their own ----
\* RedditScout.__init__: "no_credentials" (lines 44-55), the two except
\* clauses (lines 69-76), or "ok"
RedditInits == {"ok", "no_credentials", "ResponseException", "Exception"}

\* praw Submissions as RedditScout reads them: by their id
PostIds == {"p1", "p2"}
Posts == [cls : {"Submission"}, id : PostIds]

\* how the listing of one subreddit ends: exhausted, or an exception of
\* one of the three except clauses (lines 119-129)
RedditFailures == {"none", "Redirect", "PrawcoreException", "Exception"}
Listings(room) == [items : SeqsUpTo(Posts, room), fail : RedditFailures]

\* feed entries: entry.link (absent: the attribute lookup raises) and
\* entry.get("id") (absent: the link is used)
Links == {"u1", "u2"}
Entries == [link : Links \cup {"absent"}, id : {"absent", "g1"}]

\* feedparser.parse of one feed: it raises, or returns entries with the
\* bozo flag set or not
Feeds(room) ==
    {[raises |-> TRUE, bozo |-> FALSE, entries |-> <<>>]}
      \cup [raises : {FALSE}, bozo : BOOLEAN, entries : SeqsUpTo(Entries, room)]

\* every item is kept, seen before or not
KeepAlways(seen, key) == TRUE

\* reddit_scout.py line 115, rss_scout.py line 71
Keep(seen, key) == key \notin seen

\* reddit_scout.py lines 114-117 over the items one listing yields
RECURSIVE CollectPosts(_, _)
CollectPosts(items, st) ==
    IF items = <<>> THEN st
    ELSE LET x == Head(items) IN
         CollectPosts(Tail(items),
                      IF Keep(st.seen, x.id)
                      THEN [leads |-> Append(st.leads, x), seen |-> st.seen \cup {x.id}]
                      ELSE st)

\* rss_scout.py lines 73-84; the feed index stands for the host name, one
\* title and one summary stand for the texts of the entry
MakeLead(entry, feed) ==
    [cls |-> "JobLead", id |-> IF entry.id = "absent" THEN entry.link ELSE entry.id,
     title |-> "title", body |-> "summary", url |-> entry.link, source |-> feed]

\* rss_scout.py lines 69-86 over the entries of one feed; the entry
\* without a link raises and ends the loop over this feed
RECURSIVE CollectEntries(_, _, _)
CollectEntries(entries, feed, st) ==
    IF entries = <<>> THEN st
    ELSE LET e == Head(entries) IN
         IF e.link = "absent" THEN [st EXCEPT !.failed = TRUE]
         ELSE CollectEntries(Tail(entries), feed,
                 IF Keep(st.seen, e.link)
                 THEN [st EXCEPT !.leads = Append(@, MakeLead(e, feed)),
                                 !.seen = @ \cup {e.link}]
                 ELSE st)

\* an API error ends the scan of the subreddits
RedditContinuesUnlessAPIError(fail) == fail # "PrawcoreException"

\* reddit_scout.py lines 119-129: each except clause only logs, the loop
\* over the subreddits goes on
RedditContinues(fail) == TRUE

\* a failed feed ends the scan of the feeds
FeedContinuesUnlessFailed(failed) == ~failed

\* rss_scout.py lines 88-92: the except clause only logs
FeedContinues(failed) == TRUE

\* items delivered so far to the current call
RECURSIVE Delivered(_)
Delivered(fetched) ==
    IF fetched = <<>> THEN 0 ELSE Len(Head(fetched).items) + Delivered(Tail(fetched))

\* the state of a find_leads call that starts
CallState(pcNew) ==
    [sc EXCEPT !.pc = pcNew, !.finds = @ + 1, !.k = 1, !.leads = <<>>, !.seen = {},
               !.fetched = <<>>, !.result = <<>>]

\* RedditScout.__init__ / RSSScout.__init__, with `n` subreddits or feeds
\* in the configuration
ScoutInit ==
    /\ sc.pc = "new"
    /\ \E cls \in {"RedditScout", "RSSScout"}, outcome \in RedditInits, n \in 0..MaxSources :
         /\ cls = "RSSScout" => outcome = "ok"
         /\ sc' = [pc |-> "idle", scout |-> NewScout(cls, outcome = "ok"), init |-> outcome,
                   n |-> n, finds |-> 0, k |-> 1, leads |-> <<>>, seen |-> {},
                   fetched |-> <<>>, result |-> <<>>]
    /\ UNCHANGED <<workerVars, qa>>

\* find_leads is called: reddit_scout.py lines 92-107, rss_scout.py lines 44-52
FindLeadsCall ==
    /\ sc.pc \in {"idle", "returned"}
    /\ sc.finds < MaxFinds
    /\ IF sc.scout.cls = "RedditScout"
       THEN sc' = CallState(IF ~sc.scout.reddit \/ sc.n = 0 THEN "returned" ELSE "scan")
       ELSE sc' = CallState(IF sc.n = 0 THEN "returned" ELSE "scan")
    /\ UNCHANGED <<workerVars, qa>>

\* the next pc of the loop over the sources
AfterSource(continues) == IF continues /\ sc.k < sc.n THEN "scan" ELSE "returned"

\* reddit_scout.py lines 109-132: one subreddit is scanned
ScanSubreddit ==
    /\ sc.pc = "scan"
    /\ sc.scout.cls = "RedditScout"
    /\ \E l \in Listings(MaxFetched - Delivered(sc.fetched)) :
         LET st == CollectPosts(l.items, [leads |-> sc.leads, seen |-> sc.seen])
             next == AfterSource(RedditContinues(l.fail))
         IN sc' = [sc EXCEPT !.leads = st.leads, !.seen = st.seen,
                             !.fetched = Append(@, l), !.k = @ + 1, !.pc = next,
                             !.result = IF next = "returned" THEN st.leads ELSE <<>>]
    /\ UNCHANGED <<workerVars, qa>>

\* rss_scout.py lines 54-95: one feed is parsed
ParseFeed ==
    /\ sc.pc = "scan"
    /\ sc.scout.cls = "RSSScout"
    /\ \E f \in Feeds(MaxFetched - Delivered(sc.fetched)) :
         LET st == CollectEntries(f.entries, sc.k,
                                  [leads |-> sc.leads, seen |-> sc.seen, failed |-> f.raises])
             next == AfterSource(FeedContinues(st.failed))
         IN sc' = [sc EXCEPT !.leads = st.leads, !.seen = st.seen,
                             !.fetched = Append(@, [items |-> f.entries, bozo |-> f.bozo,
                                                    raises |-> f.raises]),
                             !.k = @ + 1, !.pc = next,
                             !.result = IF next = "returned" THEN st.leads ELSE <<>>]
    /\ UNCHANGED <<workerVars, qa>>

NextScouts ==
    \/ ScoutInit
    \/ FindLeadsCall
    \/ ScanSubreddit
    \/ ParseFeed

InitScoutsAlone ==
    /\ SCOUTS_TO_USE = ConfiguredScouts
    /\ second_thread = FALSE
    /\ InitWorker

SpecScouts == InitScoutsAlone /\ [][NextScouts]_vars


\* ======================= properties =======================

Sigs(t, name) == SelectSeq(events[t], LAMBDA e : e.sig = name)
Count(t, name) == Len(Sigs(t, name))
CallsOf(t, name) == Len(SelectSeq(calls[t], LAMBDA c : c.fn = name))
Last(s) == s[Len(s)]
Terminated(t) == accepted[t] /\ pc[t] = "idle"
HasStatus(t, s) == \E k \in 1..Len(events[t]) :
                     events[t][k].sig = "status_updated" /\ events[t][k].arg = s
\* the run of context t ended with this status, then progress(100), then finished
EndsWith(t, status) ==
    LET n == Len(events[t]) IN
    /\ n >= 3
    /\ events[t][n - 2] = Status(status)
    /\ events[t][n - 1] = Progress(100)
    /\ events[t][n] = Finished
\* inside the try block, before any terminal handling
InTry == {"init", "scout_check", "find_leads", "post_search", "lead_check", "qualify"}
Errors(t) == SelectSeq(raised[t], LAMBDA x : x # "InterruptedError")

\* C1: every accepted run emits `finished` exactly once, on every path
\* (never twice while it runs, exactly once when it has returned).
C1_FinishedExactlyOnce ==
    \A t \in Contexts : accepted[t] =>
        /\ Count(t, "finished") <= 1
        /\ pc[t] = "idle" => Count(t, "finished") = 1

\* C2: `finished` is terminal: an accepted run emits nothing after it, so
\* `finished` occurs in the run's event stream only as its last event.
C2_FinishedIsLast ==
    \A t \in Contexts : accepted[t] =>
        \A k \in 1..(Len(events[t]) - 1) : events[t][k].sig # "finished"

\* C3: the progress values of an accepted run start at 0, never decrease,
\* and the last one of a run that has returned is 100.
C3_ProgressMonotone ==
    \A t \in Contexts : accepted[t] =>
        LET p == Sigs(t, "progress_updated") IN
        /\ pc[t] # "set_running" => Len(p) >= 1 /\ p[1].arg = 0
        /\ \A k \in 1..(Len(p) - 1) : p[k].arg <= p[k + 1].arg
        /\ pc[t] = "idle" => p[Len(p)].arg = 100

C3_Witness ==
    \E t \in Contexts :
        /\ Terminated(t)
        /\ \E k \in 1..Len(events[t]) :
             /\ events[t][k].sig = "progress_updated"
             /\ events[t][k].arg \notin {0, 100}

\* C4: a run_scan request made while another run is inside its try block is
\* rejected: it never passes the guard.
C4_RejectedWhileRunning ==
    [][\A t, u \in Contexts :
         (t # u /\ accepted[u] /\ pc[u] \in InTry)
            => ~(pc[t] = "idle" /\ pc'[t] = "set_running")]_vars

\* C5: a stop() called between the progress of lead k and the checkpoint of
\* lead k+1 ends the analysis there: exactly k qualifier calls, at most k
\* results, and the run ends 'Scan cancelled.', progress(100), finished.
C5_StopBetweenLeads ==
    \A t \in Contexts : accepted[t] =>
        \A n \in 1..Len(stops[t]) :
            stops[t][n].pc = "lead_check" =>
                /\ CallsOf(t, "analyze_and_qualify") = stops[t][n].i - 1
                /\ Count(t, "job_found") <= stops[t][n].i - 1
                /\ pc[t] = "idle" => EndsWith(t, "Scan cancelled.")

C5_Witness ==
    \E t \in Contexts :
        /\ Terminated(t)
        /\ Len(all_leads[t]) >= 2
        /\ \E n \in 1..Len(stops[t]) : stops[t][n].pc = "lead_check" /\ stops[t][n].i = 2
        /\ Count(t, "job_found") = 1

\* C6: a stop() called during the lead search (at a scout's checkpoint,
\* during its find_leads, or before the checkpoint that follows the last
\* scout) lets no later scout be queried, no qualifier call be made and no
\* result be emitted, and the run ends cancelled, not through "no leads".
C6_StopDuringSearch ==
    \A t \in Contexts : accepted[t] =>
        \A n \in 1..Len(stops[t]) :
            LET s == stops[t][n] IN
            s.pc \in {"scout_check", "find_leads", "post_search"} =>
                /\ CallsOf(t, "find_leads") = IF s.pc = "find_leads" THEN s.j ELSE s.j - 1
                /\ CallsOf(t, "analyze_and_qualify") = 0
                /\ Count(t, "job_found") = 0
                /\ Count(t, "error_occurred") = 0
                /\ ~HasStatus(t, "No new job leads found.")
                /\ pc[t] = "idle" => EndsWith(t, "Scan cancelled.")

C6_Witness ==
    \E t \in Contexts :
        /\ Terminated(t)
        /\ Len(scout_iter[t]) = 2
        /\ all_leads[t] # <<>>
        /\ \E n \in 1..Len(stops[t]) : stops[t][n].pc = "find_leads" /\ stops[t][n].j = 1

\* the first stop() of the run came after the checkpoint of the last lead
FirstStopPastLastCheckpoint(t) ==
    /\ stops[t] # <<>>
    /\ all_leads[t] # <<>>
    /\ LET s == stops[t][1] total == Len(all_leads[t]) IN
       \/ s.pc = "qualify" /\ s.i = total
       \/ s.pc \in {"finally", "finally_emit"} /\ s.i = total + 1

\* C7: when the first stop() comes only after the last checkpoint, the run
\* is not cancelled: every lead was handed to the qualifier, no
\* 'Scan cancelled.' is emitted, and the run ends 'Scan complete.',
\* progress(100), finished.
C7_StopAfterLastCheckpoint ==
    \A t \in Contexts : (accepted[t] /\ FirstStopPastLastCheckpoint(t)) =>
        /\ ~scan_cancelled[t]
        /\ CallsOf(t, "analyze_and_qualify") = Len(all_leads[t])
        /\ ~HasStatus(t, "Scan cancelled.")
        /\ pc[t] = "idle" => EndsWith(t, "Scan complete.")

C7_Witness ==
    \E t \in Contexts :
        /\ Terminated(t)
        /\ FirstStopPastLastCheckpoint(t)
        /\ stops[t][1].pc = "qualify"
        /\ \E k \in 1..Len(events[t]) : events[t][k] = JobFound(Len(all_leads[t]))

\* C8: an exception raised inside an accepted run is caught: one error
\* event per exception and at most one per run, nothing but the terminal
\* status, progress(100) and finished after it, and the run returns.
C8_ExceptionCaught ==
    \A t \in Contexts : accepted[t] =>
        /\ Len(Errors(t)) <= 1
        /\ Count(t, "error_occurred") = Len(Errors(t))
        /\ \A k \in 1..Len(events[t]) :
             events[t][k].sig = "error_occurred" =>
                /\ pc[t] \in {"finally", "finally_emit", "idle"}
                /\ \A m \in (k + 1)..Len(events[t]) :
                     events[t][m] \in {Status("Scan complete."), Progress(100), Finished}
                /\ pc[t] = "idle" => (k = Len(events[t]) - 3 /\ EndsWith(t, "Scan complete."))

C8_Witness ==
    \E t \in Contexts :
        /\ Terminated(t)
        /\ Errors(t) = <<"AttributeError">>
        /\ Count(t, "job_found") >= 1

\* C9: a qualification never fails the run: a run that was not cancelled
\* hands every lead to the qualifier and emits no error event.
C9_QualifierFailureNotFatal ==
    \A t \in Contexts : (Terminated(t) /\ ~scan_cancelled[t] /\ all_leads[t] # <<>>) =>
        /\ CallsOf(t, "analyze_and_qualify") = Len(all_leads[t])
        /\ Count(t, "error_occurred") = 0

\* C10: the orchestrator is idle again after every run: the flag is false
\* when `finished` is emitted, the next request is accepted, and the run it
\* starts sees the flag set until a stop() is called.
C10_BackToIdle ==
    /\ [][\A t \in Contexts :
            (events'[t] # events[t] /\ events'[t] # <<>> /\ Last(events'[t]) = Finished)
               => ~is_running]_vars
    /\ [][runs' = runs + 1 => (accepted'[W] /\ pc'[W] = "set_running")]_vars
    /\ [](\A t \in Contexts :
            (accepted[t] /\ pc[t] \in InTry /\ stops[t] = <<>>) => is_running)

C10_Witness ==
    /\ runs = 2
    /\ accepted[W]
    /\ pc[W] = "lead_check"
    /\ is_running

\* the error event of the except clause for exception `exc`
ErrorOf(exc) == Error("An error occurred during the scan: " \o Message(exc))

\* C11: when no configured path resolves to a scout class the run fails at
\* once: its events are the start, the initialisation status and exactly
\* one error event saying that no valid scouts were initialised; no
\* find_leads and no qualifier call is made; and it still ends with the
\* terminal status, progress(100) and finished.
C11_NoScoutsFailsAtOnce ==
    \A t \in Contexts :
        (/\ accepted[t]
         /\ pc[t] \notin {"set_running", "init"}
         /\ \A k \in 1..Len(SCOUTS_TO_USE) : SCOUTS_TO_USE[k] = "missing.Scout") =>
            /\ raised[t] = <<"RuntimeError">>
            /\ Count(t, "error_occurred") = 1
            /\ SubSeq(events[t], 1, 4) =
                  <<Status("Starting scan..."), Progress(0),
                    Status("Initializing agents..."), ErrorOf("RuntimeError")>>
            /\ calls[t] = <<>>
            /\ Count(t, "job_found") = 0
            /\ pc[t] = "idle" =>
                  (Len(events[t]) = 7 /\ EndsWith(t, "Scan complete."))

C11_Witness ==
    /\ Terminated(W)
    /\ SCOUTS_TO_USE = <<"missing.Scout">>
    /\ Count(W, "error_occurred") = 1

\* the configured paths that name an existing scout class, in order
Resolvable == SelectSeq(SCOUTS_TO_USE, LAMBDA p : p # "missing.Scout")
ScoutName(path) == IF path = "reddit_scout.RedditScout" THEN "RedditScout" ELSE "RSSScout"
AskStatus(path) == Status("Asking " \o ScoutName(path) \o " for leads...")
\* the "Asking ... for leads..." statuses of the run, in order
Asked(t) == SelectSeq(events[t], LAMBDA e :
                e.sig = "status_updated" /\ e.arg \in {"Asking RedditScout for leads...",
                                                       "Asking RSSScout for leads..."})
FindCalls(t) == SelectSeq(calls[t], LAMBDA c : c.fn = "find_leads")

\* C12: a configured path that fails to resolve is skipped: it raises no
\* error event and does not end the run.  The scouts of a run are those of
\* the resolvable paths in configured order, and a run during which stop()
\* is not called queries exactly these, each once, in that order.
C12_UnresolvableSkipped ==
    \A t \in Contexts :
        (accepted[t] /\ pc[t] \notin {"set_running", "init"} /\ Resolvable # <<>>) =>
            /\ "RuntimeError" \notin {raised[t][k] : k \in 1..Len(raised[t])}
            /\ SubSeq(events[t], 1, 4) =
                  <<Status("Starting scan..."), Progress(0), Status("Initializing agents..."),
                    Status("Searching for job leads from all sources...")>>
            /\ Len(scout_iter[t]) = Len(Resolvable)
            /\ \A k \in 1..Len(Resolvable) : scout_iter[t][k].cls = ScoutName(Resolvable[k])
            /\ Len(Asked(t)) <= Len(Resolvable)
            /\ \A k \in 1..Len(Asked(t)) : Asked(t)[k] = AskStatus(Resolvable[k])
            /\ Len(FindCalls(t)) = Len(Asked(t))
            /\ \A k \in 1..Len(FindCalls(t)) : FindCalls(t)[k].n = k
            /\ (pc[t] \notin {"scout_check", "find_leads"} /\ stops[t] = <<>>)
                  => Len(Asked(t)) = Len(Resolvable)

C12_Witness ==
    /\ Terminated(W)
    /\ SCOUTS_TO_USE = <<"missing.Scout", "rss_scout.RSSScout">>
    /\ stops[W] = <<>>
    /\ CallsOf(W, "find_leads") = 1
    /\ Count(W, "error_occurred") = 0

\* C13: a run whose scouts all return no lead, with no stop() and no
\* exception, makes no qualifier call, emits no result and no error, and
\* the last status it emits is 'No new job leads found.'.
C13_NoLeadsTerminalStatus ==
    \A t \in Contexts :
        (/\ Terminated(t)
         /\ scout_iter[t] # <<>>
         /\ all_leads[t] = <<>>
         /\ stops[t] = <<>>
         /\ raised[t] = <<>>) =>
            /\ CallsOf(t, "analyze_and_qualify") = 0
            /\ Count(t, "job_found") = 0
            /\ Count(t, "error_occurred") = 0
            /\ Last(Sigs(t, "status_updated")) = Status("No new job leads found.")

\* the lists the find_leads calls of the run returned, in call order
Returned(t) == SelectSeq(calls[t], LAMBDA c : c.fn = "find_leads_return")
RECURSIVE Flatten(_)
Flatten(rs) == IF rs = <<>> THEN <<>> ELSE Head(rs).got \o Flatten(Tail(rs))

\* C14: the merged lead list is the concatenation of the lists the scouts
\* returned, in the order the scouts were queried, and the results are
\* emitted in that order: each result belongs to a lead of the list, and
\* their positions strictly increase (no reordering, no lead twice).
C14_ResultsInLeadOrder ==
    \A t \in Contexts : accepted[t] =>
        LET r == Sigs(t, "job_found") IN
        /\ all_leads[t] = Flatten(Returned(t))
        /\ \A k \in 1..Len(Returned(t)) : Returned(t)[k].n = k
        /\ \A k \in 1..Len(r) : r[k].arg \in 1..Len(all_leads[t])
        /\ \A k \in 1..(Len(r) - 1) : r[k].arg < r[k + 1].arg

C14_Witness ==
    /\ Terminated(W)
    /\ Len(Returned(W)) = 2
    /\ \A k \in 1..2 : Len(Returned(W)[k].got) = 1
    /\ Count(W, "job_found") >= 1

Checkpoints == {"scout_check", "post_search", "lead_check"}

\* C15: a run is marked cancelled exactly by a step that finds the flag
\* cleared at one of its three checkpoints; it emits 'Scan cancelled.' if
\* and only if it was so marked; a run that emits it emits no error event,
\* and 'Scan cancelled.' is followed by progress(100) and finished only.
C15_CancelledIffObserved ==
    /\ [][\A t \in Contexts :
            (scan_cancelled'[t] /\ ~scan_cancelled[t])
               <=> (pc[t] \in Checkpoints /\ pc'[t] = "finally" /\ ~is_running)]_vars
    /\ [](\A t \in Contexts : accepted[t] =>
            /\ HasStatus(t, "Scan cancelled.") =>
                  (scan_cancelled[t] /\ Count(t, "error_occurred") = 0
                   /\ EndsWith(t, "Scan cancelled."))
            /\ (pc[t] = "idle" /\ scan_cancelled[t]) => HasStatus(t, "Scan cancelled."))

C15_Witness ==
    /\ Terminated(W)
    /\ raised[W] = <<"InterruptedError">>
    /\ all_leads[W] # <<>>
    /\ EndsWith(W, "Scan cancelled.")

CallStarts == {"find_leads", "analyze_and_qualify"}
CallEnds == {"find_leads_return", "analyze_and_qualify_return"}
Started(t) == Len(SelectSeq(calls[t], LAMBDA c : c.fn \in CallStarts))
Ended(t) == Len(SelectSeq(calls[t], LAMBDA c : c.fn \in CallEnds))

C17_BlankBodyShortCircuits ==
    (qa.pc = "returned" /\ HasBody(qa.lead) /\ qa.lead.body \in {"", " "}) =>
        /\ qa.ret = "None"
        /\ qa.backend = 0
        /\ qa.response = NoResponse

C17_Witness ==
    /\ qa.pc = "returned"
    /\ qa.agent.model
    /\ HasBody(qa.lead)
    /\ qa.lead.body = " "
    /\ qa.ret = "None"

\* C18: a qualifier whose initialisation failed returns None for every
\* lead, without a backend call and without raising: the run emits no
\* result, no error event comes from the qualifier, and a run that is not
\* cancelled hands every lead to it and ends 'Scan complete.',
\* progress(100), finished.
C18_UninitialisedQualifier ==
    \A t \in Contexts :
        (accepted[t] /\ pc[t] \notin {"set_running", "init"} /\ ~qualifier_agent.model) =>
            /\ CallsOf(t, "generate_content") = 0
            /\ Count(t, "job_found") = 0
            /\ "AttributeError" \notin {raised[t][k] : k \in 1..Len(raised[t])}
            /\ scout_iter[t] # <<>> => Count(t, "error_occurred") = 0
            /\ (pc[t] = "idle" /\ ~scan_cancelled[t] /\ all_leads[t] # <<>>) =>
                  /\ CallsOf(t, "analyze_and_qualify") = Len(all_leads[t])
                  /\ CallsOf(t, "analyze_and_qualify_return") = Len(all_leads[t])
                  /\ EndsWith(t, "Scan complete.")

C18_Witness ==
    /\ Terminated(W)
    /\ ~qualifier_agent.model
    /\ Len(all_leads[W]) = 2
    /\ \E k \in 1..2 : all_leads[W][k].cls = "Submission"
    /\ CallsOf(W, "analyze_and_qualify") = 2
    /\ EndsWith(W, "Scan complete.")

\* the backend answered with a text that parses as JSON
ParsedResponse == qa.pc = "returned" /\ qa.response.kind = "Text" /\ qa.response.text.valid
ParsedValue == qa.response.text.value

\* C19: validation fails closed.  When the response parses as JSON but is
\* not an object, or is an object that lacks one of `score`,
\* `justification`, `cover_letter_draft`, analyze_and_qualify returns None
\* and no result is emitted for the lead.
C19_ValidationFailsClosed ==
    (/\ ParsedResponse
     /\ \/ ParsedValue.t # "object"
        \/ \E key \in {"score", "justification", "cover_letter_draft"} :
              key \notin DOMAIN ParsedValue.v) =>
        /\ qa.ret = "None"
        /\ qa.emitted = <<>>

C19_Witness ==
    /\ ParsedResponse
    /\ ParsedValue.t = "object"
    /\ DOMAIN ParsedValue.v =
          {"justification", "cover_letter_draft", "extracted_company_name", "extracted_contact_info"}
    /\ qa.ret = "None"

\* C20: on a response that is a JSON object with the three required
\* fields, analyze_and_qualify returns a result whose id, title, url and
\* source are the lead's, whose score, justification and cover_letter are
\* the response's `score`, `justification` and `cover_letter_draft`, and
\* whose company_name and contact_info are the response's
\* `extracted_company_name` and `extracted_contact_info`, null when missing.
C20_ResultAssembled ==
    (/\ ParsedResponse
     /\ ParsedValue.t = "object"
     /\ {"score", "justification", "cover_letter_draft"} \subseteq DOMAIN ParsedValue.v) =>
        LET f == ParsedValue.v
            res == qa.value
        IN /\ qa.ret = "dict"
           /\ res.id = qa.lead.id
           /\ res.title = qa.lead.title
           /\ res.url = qa.lead.url
           /\ res.source = qa.lead.source
           /\ res.score = f["score"]
           /\ res.justification = f["justification"]
           /\ res.cover_letter = f["cover_letter_draft"]
           /\ res.company_name =
                 IF "extracted_company_name" \in DOMAIN f THEN f["extracted_company_name"]
                 ELSE [t |-> "null"]
           /\ res.contact_info =
                 IF "extracted_contact_info" \in DOMAIN f THEN f["extracted_contact_info"]
                 ELSE [t |-> "null"]
           /\ DOMAIN res = {"id", "title", "url", "source", "score", "justification",
                            "cover_letter", "company_name", "contact_info"}

C20_Witness ==
    /\ ParsedResponse
    /\ qa.ret = "dict"
    /\ qa.lead.id = "id2"
    /\ DOMAIN ParsedValue.v = {"score", "justification", "cover_letter_draft",
                                "extracted_company_name"}
    /\ qa.value.company_name = [t |-> "str", v |-> "text"]
    /\ qa.value.contact_info = [t |-> "null"]

\* C21: every result emitted carries a score that is an integer in 0..100,
\* whatever JSON object the backend returned.
C21_ScoreInRange ==
    (qa.pc = "returned" /\ qa.emitted # <<>>) =>
        /\ qa.value.score.t = "int"
        /\ qa.value.score.v \in 0..100

\* C22: within one run a result is emitted only for a lead that has a
\* non-empty body, and at most one result is emitted per lead of the
\* merged list.
C22_ResultOnlyForBody ==
    \A t \in Contexts : accepted[t] =>
        LET r == Sigs(t, "job_found") IN
        /\ \A k \in 1..Len(r) :
              /\ r[k].arg \in 1..Len(all_leads[t])
              /\ "body" \in DOMAIN all_leads[t][r[k].arg]
              /\ all_leads[t][r[k].arg].body \notin {"", " "}
        /\ \A a, b \in 1..Len(r) : r[a].arg = r[b].arg => a = b

C22_Witness ==
    /\ Terminated(W)
    /\ Len(all_leads[W]) = 2
    /\ all_leads[W][1].cls = "JobLead" /\ all_leads[W][1].body = " "
    /\ all_leads[W][2].cls = "JobLead" /\ all_leads[W][2].body = "job"
    /\ Sigs(W, "job_found") = <<JobFound(2)>>

\* the entries of a feed that are reached: those before the first one
\* whose link is absent
RECURSIVE Reached(_)
Reached(entries) ==
    IF entries = <<>> \/ Head(entries).link = "absent" THEN <<>>
    ELSE <<Head(entries)>> \o Reached(Tail(entries))

\* the items the current call went through, each with the index of its
\* subreddit or feed, in iteration order
RECURSIVE ProcessedFrom(_, _)
ProcessedFrom(fetched, k) ==
    IF fetched = <<>> THEN <<>>
    ELSE LET items == IF sc.scout.cls = "RSSScout" THEN Reached(Head(fetched).items)
                      ELSE Head(fetched).items
         IN [p \in 1..Len(items) |-> [item |-> items[p], src |-> k]]
              \o ProcessedFrom(Tail(fetched), k + 1)
Processed == ProcessedFrom(sc.fetched, 1)

KeyOf(x) == IF "link" \in DOMAIN x.item THEN x.item.link ELSE x.item.id
LeadOf(x) ==
    IF "link" \in DOMAIN x.item
    THEN MakeLead(x.item, x.src)
    ELSE x.item
KeyOfLead(lead) == IF lead.cls = "JobLead" THEN lead.url ELSE lead.id
FirstIdx(key) ==
    CHOOSE p \in 1..Len(Processed) :
        KeyOf(Processed[p]) = key /\ \A q \in 1..(p - 1) : KeyOf(Processed[q]) # key

C24_FeedLeadIdsDistinct ==
    (sc.pc = "returned" /\ sc.scout.cls = "RSSScout") =>
        \A a, b \in 1..Len(sc.result) : sc.result[a].id = sc.result[b].id => a = b

\* the call in progress is one of an enabled scout of class cls with at
\* least one subreddit or feed configured
Scanning(cls) ==
    /\ sc.pc \in {"scan", "returned"}
    /\ sc.finds > 0
    /\ sc.scout.cls = cls
    /\ sc.n > 0
    /\ cls = "RedditScout" => sc.scout.reddit

\* C25: in RedditScout.find_leads a failure while one subreddit is scanned
\* (not found, API error, any other exception) does not end the call and
\* does not keep the later subreddits from being scanned: the call returns
\* only after all configured subreddits, and its result holds every post
\* that was fetched, those fetched from a failing subreddit before its
\* failure included.
C25_SubredditFailureIsolated ==
    Scanning("RedditScout") =>
        /\ sc.pc = "scan" => (sc.k <= sc.n /\ Len(sc.fetched) = sc.k - 1)
        /\ sc.pc = "returned" =>
              /\ Len(sc.fetched) = sc.n
              /\ \A k \in 1..sc.n : \A p \in 1..Len(sc.fetched[k].items) :
                    \E a \in 1..Len(sc.result) : sc.result[a] = sc.fetched[k].items[p]

C25_Witness ==
    /\ Scanning("RedditScout")
    /\ sc.pc = "returned"
    /\ Len(sc.fetched) = 2
    /\ sc.fetched[1].fail = "Redirect" /\ Len(sc.fetched[1].items) = 1
    /\ sc.fetched[2].fail = "none" /\ Len(sc.fetched[2].items) = 1
    /\ Len(sc.result) = 2

\* C26: in RSSScout.find_leads a feed whose parse raises, or an entry
\* that raises, does not end the call and does not keep the later feeds
\* from being processed: the call returns only after all configured
\* feeds.  A feed flagged bozo is processed like any other, and every
\* entry reached before a failure has a lead with its link in the result.
C26_FeedFailureIsolated ==
    Scanning("RSSScout") =>
        /\ sc.pc = "scan" => (sc.k <= sc.n /\ Len(sc.fetched) = sc.k - 1)
        /\ sc.pc = "returned" =>
              /\ Len(sc.fetched) = sc.n
              /\ \A k \in 1..sc.n :
                    LET usable == Reached(sc.fetched[k].items) IN
                    \A p \in 1..Len(usable) :
                       \E a \in 1..Len(sc.result) :
                          /\ sc.result[a].cls = "JobLead"
                          /\ sc.result[a].url = usable[p].link

C26_Witness ==
    /\ Scanning("RSSScout")
    /\ sc.pc = "returned"
    /\ Len(sc.fetched) = 2
    /\ sc.fetched[1].items = <<[link |-> "absent", id |-> "g1"]>>
    /\ sc.fetched[2].bozo
    /\ sc.fetched[2].items = <<[link |-> "u2", id |-> "absent"]>>
    /\ sc.result = <<[cls |-> "JobLead", id |-> "u2", title |-> "title", body |-> "summary",
                      url |-> "u2", source |-> 2]>>

\* C27: a RedditScout whose construction found the credentials missing or
\* failed to authenticate is built all the same, without a client, and
\* stays so: every find_leads call on it returns the empty list at once,
\* without scanning a subreddit.
C27_DisabledRedditScout ==
    (sc.pc # "new" /\ sc.scout.cls = "RedditScout" /\ sc.init # "ok") =>
        /\ ~sc.scout.reddit
        /\ sc.pc \in {"idle", "returned"}
        /\ sc.fetched = <<>>
        /\ sc.result = <<>>

C27_Witness ==
    /\ sc.pc = "returned"
    /\ sc.scout.cls = "RedditScout"
    /\ sc.init = "ResponseException"
    /\ sc.n = 2
    /\ sc.finds = 2

\* a run of context t is in flight: it passed the guard and has not returned
InFlight(t) == accepted[t] /\ pc[t] # "idle"

\* C28: at most one run is in flight at any time, and while a run on which
\* stop() was called inside its try block is still there the flag stays
\* cleared (no other request sets it again).
C28_AtMostOneRun ==
    /\ Cardinality({t \in Contexts : InFlight(t)}) <= 1
    /\ \A t \in Contexts :
          (/\ InFlight(t)
           /\ pc[t] \in InTry
           /\ \E n \in 1..Len(stops[t]) : stops[t][n].pc \in InTry) => ~is_running

\* C29: a stop request made with the Stop button while the run is at one
\* of its checkpoints (or earlier) reaches the flag before that
\* checkpoint is passed: the run ends 'Scan cancelled.', progress(100),
\* finished.
C29_StopButtonCancels ==
    (/\ Terminated(W)
     /\ \E n \in 1..Len(stops[W]) : stops[W][n].pc \in Checkpoints) =>
        EndsWith(W, "Scan cancelled.")

QualifierCalls(t) == SelectSeq(calls[t], LAMBDA c : c.fn = "analyze_and_qualify")
BackendCallsFor(t, n) ==
    Len(SelectSeq(calls[t], LAMBDA c : c.fn = "generate_content" /\ c.n = n))

\* C30: in a run that is neither cancelled nor failed the qualifier is
\* called exactly once for each lead of the merged list, in list order;
\* and in any run each qualifier call makes at most one backend call.
C30_OncePerLead ==
    \A t \in Contexts : accepted[t] =>
        /\ \A n \in 1..Len(all_leads[t]) : BackendCallsFor(t, n) <= 1
        /\ (pc[t] = "idle" /\ ~scan_cancelled[t] /\ raised[t] = <<>> /\ all_leads[t] # <<>>) =>
              /\ Len(QualifierCalls(t)) = Len(all_leads[t])
              /\ \A k \in 1..Len(QualifierCalls(t)) : QualifierCalls(t)[k].n = k

C30_Witness ==
    /\ Terminated(W)
    /\ ~scan_cancelled[W]
    /\ raised[W] = <<>>
    /\ Len(all_leads[W]) = 2
    /\ CallsOf(W, "generate_content") = 2

\* positions of the events of the lead loop in the event log of context t
AnalyzingAt(t) ==
    {p \in 1..Len(events[t]) : events[t][p] = Status("Analyzing lead")}
LeadProgressAt(t) ==
    {p \in 1..Len(events[t]) :
        /\ events[t][p].sig = "progress_updated"
        /\ \E q \in 1..(p - 1) : events[t][q] = Status("Analyzing lead")
        /\ ~(pc[t] = "idle" /\ p = Len(events[t]) - 1)}
\* the number of the lead whose iteration emitted the event at position p
LeadAt(t, p) == Cardinality({q \in 1..(p - 1) : events[t][q] = Status("Analyzing lead")})

\* C31: results are streamed: the result of lead n, when there is one,
\* stands in the event log right after the status of lead n and right
\* before the progress of lead n, hence before anything of lead n+1 and
\* before the qualifier is called on lead n+1; each processed lead has
\* exactly one progress event, with or without a result.
C31_ResultsStreamed ==
    \A t \in Contexts : accepted[t] =>
        /\ Cardinality(AnalyzingAt(t)) = Len(QualifierCalls(t))
        /\ LET progress == LeadProgressAt(t) IN
           /\ Cardinality(progress) = i[t] - 1
           /\ \A p \in progress :
                 /\ events[t][p].arg = ProgressOf(LeadAt(t, p), Len(all_leads[t]))
                 /\ \/ events[t][p - 1] = Status("Analyzing lead")
                    \/ events[t][p - 1] = JobFound(LeadAt(t, p))
           /\ \A p \in 1..Len(events[t]) : events[t][p].sig = "job_found" =>
                 /\ p > 1
                 /\ events[t][p - 1] = Status("Analyzing lead")
                 /\ events[t][p].arg = LeadAt(t, p)
                 /\ p < Len(events[t])
                 /\ p + 1 \in progress

C31_Witness ==
    /\ Terminated(W)
    /\ Len(all_leads[W]) = 2
    /\ i[W] = 3
    /\ \E p \in 1..Len(events[W]) : events[W][p] = JobFound(1)
    /\ \A p \in 1..Len(events[W]) : events[W][p] # JobFound(2)

\* base_scout.py lines 23-35: the fields of a JobLead
LeadFields == {"id", "title", "body", "url", "source"}

\* C32: every element a find_leads call returns is a JobLead carrying
\* the five fields id, title, body, url and source.
C32_LeadsAreStandardized ==
    sc.pc = "returned" =>
        \A k \in 1..Len(sc.result) :
            /\ sc.result[k].cls = "JobLead"
            /\ LeadFields \subseteq DOMAIN sc.result[k]

\* C33: a stop() called while no run is in progress has no effect on the
\* next run: the flag is still clear when the worker is idle, so every
\* request made then is accepted, and a run during which stop() was not
\* called is not cancelled.
C33_IdleStopHasNoEffect ==
    /\ pc[W] = "idle" => ~is_running
    /\ runs > 0 => accepted[W]
    /\ (accepted[W] /\ stops[W] = <<>>) =>
          /\ ~scan_cancelled[W]
          /\ \A k \in 1..Len(raised[W]) : raised[W][k] # "InterruptedError"
          /\ ~HasStatus(W, "Scan cancelled.")

C33_Witness ==
    /\ idle_stops = {0, 1}
    /\ runs = 2
    /\ Terminated(W)
    /\ stops[W] = <<>>
    /\ Len(all_leads[W]) = 2
    /\ i[W] = 3
    /\ EndsWith(W, "Scan complete.")

\* C34: a run that failed, one that emitted an error event for a
\* run-level error, does not emit the status 'Scan complete.'.
C34_FailedNotComplete ==
    \A t \in Contexts :
        (Terminated(t) /\ Count(t, "error_occurred") > 0) => ~HasStatus(t, "Scan complete.")

\* the scout at position k of the run's list was built without its client
Disabled(t, k) == scout_iter[t][k].cls = "RedditScout" /\ ~scout_iter[t][k].reddit

\* C35: a scout that is built but disabled counts as a resolved scout:
\* the 'no valid scouts' failure happens exactly when no configured path
\* resolves, every resolved path has its scout in the run's list, and a
\* run with no stop() whose scouts, disabled or not, all return nothing
\* takes the no-leads path: every scout is asked, the no-leads status is
\* emitted, and there is no error event.
C35_DisabledScoutIsResolved ==
    \A t \in Contexts : (accepted[t] /\ pc[t] \notin {"set_running", "init"}) =>
        /\ (\E k \in 1..Len(raised[t]) : raised[t][k] = "RuntimeError") <=> Resolvable = <<>>
        /\ Len(scout_iter[t]) = Len(Resolvable)
        /\ (pc[t] = "idle" /\ scout_iter[t] # <<>> /\ all_leads[t] = <<>> /\ stops[t] = <<>>) =>
              /\ CallsOf(t, "find_leads") = Len(scout_iter[t])
              /\ HasStatus(t, "No new job leads found.")
              /\ Count(t, "error_occurred") = 0
              /\ raised[t] = <<>>

C35_Witness ==
    /\ Terminated(W)
    /\ SCOUTS_TO_USE = <<"reddit_scout.RedditScout">>
    /\ Len(scout_iter[W]) = 1
    /\ Disabled(W, 1)
    /\ CallsOf(W, "find_leads") = 1
    /\ HasStatus(W, "No new job leads found.")
    /\ Count(W, "error_occurred") = 0

\* a step in which stop() was called during the run of context t
StopStep(t) == pc[t] # "idle" /\ Len(stops'[t]) = Len(stops[t]) + 1
\* the end of qualifier call n in the log of context t
ReturnOf(t, n) ==
    SelectSeq(calls[t], LAMBDA c : c.fn = "analyze_and_qualify_return" /\ c.n = n)
\* position of the first event e in the log of context t, 0 when absent
IndexOf(t, e) ==
    IF \E p \in 1..Len(events[t]) : events[t][p] = e
    THEN CHOOSE p \in 1..Len(events[t]) :
            events[t][p] = e /\ \A q \in 1..(p - 1) : events[t][q] # e
    ELSE 0

\* C36: stop() changes only the flag: the step emits no event and leaves
\* the collected leads, the scouts, the qualifier and the position of the
\* run as they are.  A call in flight at that moment runs to its return:
\* the leads of a find_leads call in flight are still collected, and the
\* result of a qualifier call in flight is still emitted, with the
\* progress of its lead, before any 'Scan cancelled.' status.
C36_StopOnlyClearsFlag ==
    /\ [][\A t \in Contexts : StopStep(t) =>
             /\ is_running' = FALSE
             /\ UNCHANGED <<events, calls, all_leads, scouts, qualifier_agent, scout_iter, pc,
                            j, i, scan_cancelled, raised, accepted, runs>>]_vars
    /\ [](\A t \in Contexts : accepted[t] =>
            \A k \in 1..Len(stops[t]) :
               LET s == stops[t][k] IN
               /\ (s.pc = "find_leads" /\ (pc[t] # "find_leads" \/ j[t] > s.j)) =>
                     /\ \E c \in 1..Len(calls[t]) :
                           calls[t][c].fn = "find_leads_return" /\ calls[t][c].n = s.j
                     /\ all_leads[t] = Flatten(Returned(t))
               /\ (s.pc = "qualify" /\ (pc[t] # "qualify" \/ i[t] > s.i)) =>
                     /\ Len(ReturnOf(t, s.i)) = 1
                     /\ LET out == ReturnOf(t, s.i)[1].out
                            done == Progress(ProgressOf(s.i, Len(all_leads[t])))
                            seen == IndexOf(t, Status("Scan cancelled."))
                        IN /\ out = "dict" =>
                                 /\ IndexOf(t, JobFound(s.i)) > 0
                                 /\ seen > 0 => IndexOf(t, JobFound(s.i)) < seen
                           /\ out \in {"None", "dict"} =>
                                 /\ i[t] > s.i
                                 /\ \E p \in LeadProgressAt(t) :
                                       /\ events[t][p] = done
                                       /\ LeadAt(t, p) = s.i
                                       /\ seen > 0 => p < seen)

C36_Witness ==
    /\ Terminated(W)
    /\ Len(all_leads[W]) = 2
    /\ stops[W] = <<[pc |-> "qualify", j |-> 3, i |-> 1]>>
    /\ ReturnOf(W, 1) # <<>>
    /\ ReturnOf(W, 1)[1].out = "dict"
    /\ IndexOf(W, JobFound(1)) > 0
    /\ scan_cancelled[W]
    /\ CallsOf(W, "analyze_and_qualify") = 1

====
